---- MODULE Spec2Model ----
(***************************************************************************)
(* Index fund replication calculator (src/main.py).                        *)
(*                                                                         *)
(* calculate_weights_with_cap turns market capitalisations into capped,    *)
(* once-redistributed weights; calculate_shares turns those weights, a     *)
(* budget, prices and a transaction cost rate into whole share counts and  *)
(* cost totals.                                                            *)
(*                                                                         *)
(* The code computes with Python floats, and int() of a float quotient     *)
(* decides the share counts, so the numbers here are IEEE 754 binary64     *)
(* values with correctly rounded +, -, * and /: 309 / (20 * (1 + 0.03)) is *)
(* 14.999999999999998 and int() of it is 14.  A Python dict is a sequence  *)
(* of entries with distinct keys, in insertion order.  A raised exception  *)
(* is a result whose field raised names it.                                *)
(***************************************************************************)
EXTENDS Integers, Sequences, FiniteSets

\* ------------------------------------------------------------------------
\* Bounds of the model

\* longest equity list explored
MaxEquities == 2

\* ------------------------------------------------------------------------
\* Natural numbers of any size: a sequence of limbs in base 2^15, least
\* significant first, without a leading zero limb (TLC's integers have 32
\* bits; a double's significand has 53)

Base == 32768

RECURSIVE BNat(_)
BNat(k) == IF k = 0 THEN <<>> ELSE <<k % Base>> \o BNat(k \div Base)

RECURSIVE BTrim(_)
BTrim(a) ==
    IF a = <<>> THEN <<>>
    ELSE IF a[Len(a)] = 0 THEN BTrim(SubSeq(a, 1, Len(a) - 1)) ELSE a

Limb(a, i) == IF i <= Len(a) THEN a[i] ELSE 0

RECURSIVE BCmpFrom(_, _, _)
BCmpFrom(a, b, i) ==
    IF i = 0 THEN 0
    ELSE IF a[i] < b[i] THEN -1
    ELSE IF a[i] > b[i] THEN 1
    ELSE BCmpFrom(a, b, i - 1)

\* -1, 0 or 1 as a < b, a = b or a > b
BCmp(a, b) ==
    IF Len(a) < Len(b) THEN -1
    ELSE IF Len(a) > Len(b) THEN 1
    ELSE BCmpFrom(a, b, Len(a))

RECURSIVE BAddFrom(_, _, _, _)
BAddFrom(a, b, i, carry) ==
    IF i > Len(a) /\ i > Len(b) THEN (IF carry = 0 THEN <<>> ELSE <<carry>>)
    ELSE LET t == Limb(a, i) + Limb(b, i) + carry
         IN  <<t % Base>> \o BAddFrom(a, b, i + 1, t \div Base)

BAdd(a, b) == BAddFrom(a, b, 1, 0)

RECURSIVE BSubFrom(_, _, _, _)
BSubFrom(a, b, i, borrow) ==
    IF i > Len(a) THEN <<>>
    ELSE LET t == a[i] - Limb(b, i) - borrow
         IN  <<(t + Base) % Base>> \o BSubFrom(a, b, i + 1, IF t < 0 THEN 1 ELSE 0)

\* a - b for a >= b
BSub(a, b) == BTrim(BSubFrom(a, b, 1, 0))

RECURSIVE BMulSmallFrom(_, _, _, _)
BMulSmallFrom(a, k, i, carry) ==
    IF i > Len(a) THEN (IF carry = 0 THEN <<>> ELSE <<carry>>)
    ELSE LET t == a[i] * k + carry
         IN  <<t % Base>> \o BMulSmallFrom(a, k, i + 1, t \div Base)

\* a * k for 0 <= k < Base
BMulSmall(a, k) == IF k = 0 THEN <<>> ELSE BMulSmallFrom(a, k, 1, 0)

\* a * Base^n
BShiftLimbs(a, n) == IF a = <<>> THEN <<>> ELSE [i \in 1..n |-> 0] \o a

RECURSIVE BMul(_, _)
BMul(a, b) ==
    IF b = <<>> THEN <<>>
    ELSE BAdd(BMulSmall(a, b[1]), BShiftLimbs(BMul(a, Tail(b)), 1))

\* a * 2^n
BShl(a, n) == BShiftLimbs(BMulSmall(a, 2 ^ (n % 15)), n \div 15)

RECURSIVE BDivSmallFrom(_, _, _, _)
BDivSmallFrom(a, k, i, r) ==
    IF i = 0 THEN <<>>
    ELSE LET t == r * Base + a[i]
         IN  BDivSmallFrom(a, k, i - 1, t % k) \o <<t \div k>>

\* a \div 2^n
BShr(a, n) ==
    IF n \div 15 >= Len(a) THEN <<>>
    ELSE LET top == SubSeq(a, n \div 15 + 1, Len(a))
         IN  BTrim(BDivSmallFrom(top, 2 ^ (n % 15), Len(top), 0))

\* number of bits of one limb x
SmallBitLen(x) == CHOOSE n \in 0..15 : x < 2 ^ n /\ (n = 0 \/ x >= 2 ^ (n - 1))

\* number of bits of a
BBitLen(a) == IF a = <<>> THEN 0 ELSE 15 * (Len(a) - 1) + SmallBitLen(a[Len(a)])

\* number of zero bits at the low end of one limb x # 0
SmallTrailingZeros(x) == CHOOSE n \in 0..14 : x % 2 ^ n = 0 /\ x % 2 ^ (n + 1) # 0

\* number of zero bits at the low end of a # 0
RECURSIVE BTrailingZeros(_)
BTrailingZeros(a) ==
    IF a[1] = 0 THEN 15 + BTrailingZeros(Tail(a)) ELSE SmallTrailingZeros(a[1])

\* one digit of the long division: the estimate qh is lowered until
\* qh * d <= r
RECURSIVE BDivDigit(_, _, _, _)
BDivDigit(r, d, qh, p) ==
    IF BCmp(p, r) > 0 THEN BDivDigit(r, d, qh - 1, BSub(p, d))
    ELSE [q |-> qh, r |-> BSub(r, p)]

\* long division of n by d (top limb of d at least Base / 2, n not shorter
\* than d): q the quotient limbs found so far, from the top down, r the
\* remainder so far
RECURSIVE BDivFrom(_, _, _, _)
BDivFrom(n, d, q, r) ==
    IF Len(q) = Len(n) - Len(d) + 1 THEN [q |-> q, r |-> r]
    ELSE LET i == Len(n) - Len(d) + 1 - Len(q)
             r1 == IF r = <<>> /\ n[i] = 0 THEN <<>> ELSE <<n[i]>> \o r
             est == (Limb(r1, Len(d) + 1) * Base + Limb(r1, Len(d))) \div d[Len(d)]
             qh == IF est > Base - 1 THEN Base - 1 ELSE est
             dg == BDivDigit(r1, d, qh, BMulSmall(d, qh))
         IN  BDivFrom(n, d, <<dg.q>> \o q, dg.r)

\* quotient n \div d and whether the division is exact, for d # 0
BDiv(n, d) ==
    LET s == 15 - SmallBitLen(d[Len(d)])
        nn == BShl(n, s)
        dd == BShl(d, s)
        res == BDivFrom(nn, dd, <<>>, SubSeq(nn, Len(nn) - Len(dd) + 2, Len(nn)))
    IN  IF Len(nn) < Len(dd) THEN [q |-> <<>>, exact |-> nn = <<>>]
        ELSE [q |-> BTrim(res.q), exact |-> res.r = <<>>]

\* ------------------------------------------------------------------------
\* IEEE 754 binary64 numbers (Python's float): sign s, and magnitude m * 2^e
\* with m odd and below 2^53, or m = 0.  Infinities, NaN, subnormal numbers
\* and the sign of zero are not modelled: the values here stay far from them.

FZero == [s |-> 1, m |-> <<>>, e |-> 0]

\* the double of exact value x = s * m * 2^e, for m of at most 53 bits
FExact(x) ==
    IF x.m = <<>> THEN FZero
    ELSE LET tz == BTrailingZeros(x.m)
         IN  [s |-> x.s, m |-> BShr(x.m, tz), e |-> x.e + tz]

\* the dyadic number x (a little more in magnitude when sticky) rounded to
\* the nearest double, ties to even; sticky only when x.m has over 53 bits
FRound(x, sticky) ==
    IF BBitLen(x.m) <= 53 THEN FExact(x)
    ELSE LET d == BBitLen(x.m) - 53
             q == BShr(x.m, d)
             rem == BSub(x.m, BShl(q, d))
             c == BCmp(rem, BShl(<<1>>, d - 1))
             up == c > 0 \/ (c = 0 /\ (sticky \/ q[1] % 2 = 1))
         IN  FExact([s |-> x.s, m |-> IF up THEN BAdd(q, <<1>>) ELSE q, e |-> x.e + d])

\* float(k) for an int k
FInt(k) ==
    FExact([s |-> IF k < 0 THEN -1 ELSE 1, m |-> BNat(IF k < 0 THEN -k ELSE k), e |-> 0])

FNeg(a) == IF a.m = <<>> THEN a ELSE [a EXCEPT !.s = -a.s]

\* the exact sum a + b of two dyadic numbers [s, m, e] (m of any size)
XAdd(a, b) ==
    LET e == IF a.e < b.e THEN a.e ELSE b.e
        x == BShl(a.m, a.e - e)
        y == BShl(b.m, b.e - e)
        c == BCmp(x, y)
    IN  IF a.m = <<>> THEN b
        ELSE IF b.m = <<>> THEN a
        ELSE IF a.s = b.s THEN [s |-> a.s, m |-> BAdd(x, y), e |-> e]
        ELSE IF c = 0 THEN FZero
        ELSE IF c > 0 THEN [s |-> a.s, m |-> BSub(x, y), e |-> e]
        ELSE [s |-> b.s, m |-> BSub(y, x), e |-> e]

\* the exact product a * b of two dyadic numbers
XMul(a, b) ==
    IF a.m = <<>> \/ b.m = <<>> THEN FZero
    ELSE [s |-> a.s * b.s, m |-> BMul(a.m, b.m), e |-> a.e + b.e]

\* -1, 0 or 1 as a < b, a = b or a > b, for dyadic numbers
FCmp(a, b) ==
    LET d == XAdd(a, FNeg(b)) IN IF d.m = <<>> THEN 0 ELSE d.s

\* Python's a + b, a - b, a * b on floats
FAdd(a, b) ==
    IF a.m = <<>> THEN b ELSE IF b.m = <<>> THEN a ELSE FRound(XAdd(a, b), FALSE)
FSub(a, b) == FAdd(a, FNeg(b))
FMul(a, b) ==
    IF a.m = <<>> \/ b.m = <<>> THEN FZero ELSE FRound(XMul(a, b), FALSE)

\* Python's a / b on floats, b # 0
FDiv(a, b) ==
    IF b.m # <<>> /\ a.m = <<>> THEN FZero
    ELSE LET k == 56 + BBitLen(b.m) - BBitLen(a.m)
             d == BDiv(BShl(a.m, k), b.m)
         IN  FRound([s |-> a.s * b.s, m |-> d.q, e |-> a.e - b.e - k], ~d.exact)

FLt(a, b) == FCmp(a, b) < 0
FLe(a, b) == FCmp(a, b) <= 0
FGt(a, b) == FCmp(a, b) > 0
\* Python's min(a, b)
FMin(a, b) == IF FLt(b, a) THEN b ELSE a

\* float(x) for an int x of any size (an exact value with e >= 0): the
\* nearest double, ties to even
ToFloat(x) == FRound(x, FALSE)

\* Python's int(x) on a float: truncation toward zero, an int of any size
IntOf(x) ==
    IF x.e >= 0 THEN x
    ELSE FExact([s |-> x.s, m |-> BShr(x.m, -x.e), e |-> 0])

\* Python's a * b on ints of any size
IMul(a, b) == FExact(XMul(a, b))

\* the float written n/d in decimal, such as 0.03 for 3/100
FLit(n, d) == FDiv(FInt(n), FInt(d))

\* ------------------------------------------------------------------------
\* Input domains

TickersW == {"A", "B", "C"}
MarketCapsW == {0, 1, 3, 9}
PricesW == {1}
CapsW == {FLit(0, 1), FLit(15, 100), FLit(1, 2), FLit(7, 10), FLit(1, 1), FLit(3, 2)}

TickersS == {"X", "Y"}
MarketCapsS == {0, 100, 300}
PricesS == {0, 20}
CapsS == {FLit(1, 2), FLit(7, 10), FLit(1, 1)}
\* 2^53 + 7, an int that is not a double
LargeBudget == FExact(XAdd(XMul(FInt(134217728), FInt(67108864)), FInt(7)))
Budgets == {FInt(-100), FInt(0), FInt(309), FInt(1000), LargeBudget}
FeeRates == {FLit(0, 1), FLit(3, 100), FLit(-1, 1)}

\* equity lists: sequences of records of at most MaxEquities entries
EquityLists(T, M, P) ==
    UNION {[1..k -> [ticker : T, market_cap : M, price : P]] : k \in 0..MaxEquities}

\* ------------------------------------------------------------------------
\* Python dict, as a sequence of [key, value] entries with distinct keys

HasKey(dict, k) == \E i \in DOMAIN dict : dict[i].key = k

\* dict[k] = v: replaces the value in place, or appends a new entry
DictPut(dict, k, v) ==
    IF HasKey(dict, k)
    THEN [i \in DOMAIN dict |->
            IF dict[i].key = k THEN [key |-> k, value |-> v] ELSE dict[i]]
    ELSE Append(dict, [key |-> k, value |-> v])

\* sum() of the first n values, added from left to right starting at 0
RECURSIVE SumValues(_, _)
SumValues(dict, n) ==
    IF n = 0 THEN FZero
    ELSE FAdd(SumValues(dict, n - 1), dict[n].value)

\* ------------------------------------------------------------------------
\* calculate_weights_with_cap

RECURSIVE TotalMarketCap(_)
TotalMarketCap(eqs) ==
    IF eqs = <<>> THEN 0 ELSE eqs[1].market_cap + TotalMarketCap(Tail(eqs))

\* {equity["ticker"]: equity["market_cap"] / total for equity in equities[:n]}
RECURSIVE InitialWeights(_, _, _)
InitialWeights(eqs, total, n) ==
    IF n = 0 THEN <<>>
    ELSE DictPut(InitialWeights(eqs, total, n - 1),
                 eqs[n].ticker, FDiv(FInt(eqs[n].market_cap), FInt(total)))

IsOverCap(weight, cap_percentage) == FGt(weight, cap_percentage)

\* first loop: the capped weight of one ticker
CappedWeight(weight, cap_percentage) ==
    IF IsOverCap(weight, cap_percentage) THEN cap_percentage ELSE weight

\* variant: the whole weight counted as excess (- cap_percentage lost)
ExcessOfWholeWeight(weight, cap_percentage) == weight

\* first loop: weight - cap_percentage, what a capped ticker adds to the excess
ExcessOf(weight, cap_percentage) == FSub(weight, cap_percentage)

\* excess_weight after the first n tickers of the first loop
RECURSIVE ExcessWeight(_, _, _)
ExcessWeight(initial, cap_percentage, n) ==
    IF n = 0 THEN FZero
    ELSE LET before == ExcessWeight(initial, cap_percentage, n - 1)
         IN  IF IsOverCap(initial[n].value, cap_percentage)
             THEN FAdd(before, ExcessOf(initial[n].value, cap_percentage))
             ELSE before

NonCappedEquities(initial, cap_percentage) ==
    SelectSeq(initial, LAMBDA en : FLe(en.value, cap_percentage))

\* variant: "=" written for "+=", the ticker's own weight is overwritten
RedistributedOverwrites(capped, initial, excess_weight, non_capped_total) ==
    FMul(excess_weight, FDiv(initial, non_capped_total))

\* redistribution_factor = initial_weights[ticker] / non_capped_total
\* capped_weights[ticker] += excess_weight * redistribution_factor
Redistributed(capped, initial, excess_weight, non_capped_total) ==
    FAdd(capped, FMul(excess_weight, FDiv(initial, non_capped_total)))

\* variant: the clamp after redistribution left out
ClampToCapMissing(weight, cap_percentage) == weight

\* capped_weights[ticker] = min(capped_weights[ticker], cap_percentage)
ClampToCap(weight, cap_percentage) == FMin(weight, cap_percentage)

WeightsReturned(w) == [raised |-> "none", message |-> "", weights |-> w]
WeightsRaised(exc, msg) == [raised |-> exc, message |-> msg, weights |-> <<>>]

\* variant: an empty map returned silently instead of raising
ZeroTotalOutcomeSilent == WeightsReturned(<<>>)

\* raise ValueError("Total market cap is zero")
ZeroTotalOutcome == WeightsRaised("ValueError", "Total market cap is zero")

\* capped_weights after the first n tickers of the first loop
RECURSIVE CappedWeights(_, _, _)
CappedWeights(initial, cap_percentage, n) ==
    IF n = 0 THEN <<>>
    ELSE Append(CappedWeights(initial, cap_percentage, n - 1),
                [key |-> initial[n].key,
                 value |-> CappedWeight(initial[n].value, cap_percentage)])

\* the first n entries of capped_weights after the redistribution loop: the
\* loop visits the tickers of non_capped_equities and leaves the others
RECURSIVE RedistributedWeights(_, _, _, _, _, _)
RedistributedWeights(capped, initial, cap_percentage, excess_weight, non_capped_total, n) ==
    IF n = 0 THEN <<>>
    ELSE Append(RedistributedWeights(capped, initial, cap_percentage,
                                     excess_weight, non_capped_total, n - 1),
                IF FLe(initial[n].value, cap_percentage)
                THEN [key |-> capped[n].key,
                      value |-> ClampToCap(
                          Redistributed(capped[n].value, initial[n].value,
                                        excess_weight, non_capped_total),
                          cap_percentage)]
                ELSE capped[n])

CalculateWeightsWithCap(eqs, cap_percentage) ==
    LET total_market_cap == TotalMarketCap(eqs) IN
    IF total_market_cap = 0 THEN ZeroTotalOutcome
    ELSE
    LET initial_weights == InitialWeights(eqs, total_market_cap, Len(eqs))
        capped_weights ==
            CappedWeights(initial_weights, cap_percentage, Len(initial_weights))
        excess_weight ==
            ExcessWeight(initial_weights, cap_percentage, Len(initial_weights))
        non_capped_equities == NonCappedEquities(initial_weights, cap_percentage)
        non_capped_total == SumValues(non_capped_equities, Len(non_capped_equities))
    IN  IF FGt(excess_weight, FZero) /\ non_capped_equities # <<>>
           /\ FGt(non_capped_total, FZero)
        THEN WeightsReturned(
               RedistributedWeights(capped_weights, initial_weights,
                                    cap_percentage, excess_weight,
                                    non_capped_total, Len(capped_weights)))
        ELSE WeightsReturned(capped_weights)

\* ------------------------------------------------------------------------
\* calculate_shares

\* variant: "<" written for "<="
InvalidInvestmentStrict(investment_amount) == FLt(investment_amount, FZero)

\* investment_amount <= 0
InvalidInvestment(investment_amount) == FLe(investment_amount, FZero)

\* price <= 0
InvalidPrice(price) == price <= 0

\* equity_dict[ticker]: the last record of the list with that ticker
EquityOf(eqs, ticker) ==
    eqs[CHOOSE i \in DOMAIN eqs :
            /\ eqs[i].ticker = ticker
            /\ \A j \in DOMAIN eqs : eqs[j].ticker = ticker => j <= i]

\* allocation = investment_amount * weight
Allocation(investment_amount, weight) == FMul(ToFloat(investment_amount), weight)

\* price * (1 + transaction_cost_rate)
CostPerShare(price, transaction_cost_rate) ==
    FMul(FInt(price), FAdd(FInt(1), transaction_cost_rate))

\* int(allocation / (price * (1 + transaction_cost_rate))), divisor not 0
ShareCount(allocation, price, transaction_cost_rate) ==
    IntOf(FDiv(allocation, CostPerShare(price, transaction_cost_rate)))

\* cost_excl_fees = shares * price
CostExclFees(shares, price) == IMul(shares, FInt(price))

\* total_cost_incl_fees = total_cost_excl_fees + total_cost_excl_fees * rate
TotalCostInclFees(total_cost_excl_fees, transaction_cost_rate) ==
    FAdd(total_cost_excl_fees, FMul(total_cost_excl_fees, transaction_cost_rate))

SharesReturned(sh, incl, excl) ==
    [raised |-> "none", message |-> "", ticker |-> "", shares |-> sh,
     total_cost_incl |-> incl, total_cost_excl |-> excl]
SharesRaised(exc, msg, t) ==
    [raised |-> exc, message |-> msg, ticker |-> t, shares |-> <<>>,
     total_cost_incl |-> FZero, total_cost_excl |-> FZero]

\* raise ValueError("Investment amount must be positive")
InvestmentError == SharesRaised("ValueError", "Investment amount must be positive", "")

\* raise ValueError(f"Invalid price for {ticker}: {price}")
PriceError(ticker) == SharesRaised("ValueError", "Invalid price for", ticker)

\* allocation / (price * (1 + rate)) with price * (1 + rate) == 0.0
DivisionError == SharesRaised("ZeroDivisionError", "float division by zero", "")

\* whether the loop body raises for the i-th entry of the weight map w
RaisesAt(eqs, w, transaction_cost_rate, i) ==
    \/ InvalidPrice(EquityOf(eqs, w[i].key).price)
    \/ CostPerShare(EquityOf(eqs, w[i].key).price, transaction_cost_rate) = FZero

\* the loop over weights.items() stops at the first entry for which its body
\* raises: the position of that entry, 0 when the loop runs to its end
FirstRaise(eqs, w, transaction_cost_rate) ==
    LET bad == {i \in DOMAIN w : RaisesAt(eqs, w, transaction_cost_rate, i)}
    IN  IF bad = {} THEN 0 ELSE CHOOSE i \in bad : \A j \in bad : i <= j

\* shares_per_ticker after the first n tickers of the loop
RECURSIVE SharesPerTicker(_, _, _, _, _)
SharesPerTicker(eqs, w, investment_amount, transaction_cost_rate, n) ==
    IF n = 0 THEN <<>>
    ELSE Append(SharesPerTicker(eqs, w, investment_amount,
                                transaction_cost_rate, n - 1),
                [key |-> w[n].key,
                 value |-> ShareCount(Allocation(investment_amount, w[n].value),
                                      EquityOf(eqs, w[n].key).price,
                                      transaction_cost_rate)])

\* total_cost_excl_fees after the first n tickers of the loop
RECURSIVE TotalCostExclFees(_, _, _)
TotalCostExclFees(eqs, sh, n) ==
    IF n = 0 THEN FZero
    ELSE FAdd(TotalCostExclFees(eqs, sh, n - 1),
              ToFloat(CostExclFees(sh[n].value, EquityOf(eqs, sh[n].key).price)))

\* the body of calculate_shares after the budget check, given the outcome wr
\* of calculate_weights_with_cap (an exception of it propagates)
SharesFromWeights(eqs, wr, investment_amount, transaction_cost_rate) ==
    IF wr.raised # "none" THEN SharesRaised(wr.raised, wr.message, "")
    ELSE
    LET stop == FirstRaise(eqs, wr.weights, transaction_cost_rate) IN
    IF stop # 0
    THEN IF InvalidPrice(EquityOf(eqs, wr.weights[stop].key).price)
         THEN PriceError(wr.weights[stop].key)
         ELSE DivisionError
    ELSE
    LET sh == SharesPerTicker(eqs, wr.weights, investment_amount,
                              transaction_cost_rate, Len(wr.weights))
        excl == TotalCostExclFees(eqs, sh, Len(sh))
    IN  SharesReturned(sh, TotalCostInclFees(excl, transaction_cost_rate), excl)

\* ------------------------------------------------------------------------
\* State

VARIABLES
    equities,               \* the equity list the calls are made on
    cap,                    \* cap_percentage of the latest call
    weights,                \* outcome of the latest calculate_weights_with_cap
    prevCap,                \* cap_percentage of the call before
    prevWeights,            \* outcome of the call before
    investment_amount,      \* budget of the calculate_shares call
    transaction_cost_rate,  \* fee rate of the calculate_shares call
    shares                  \* outcome of the calculate_shares call

vars == <<equities, cap, weights, prevCap, prevWeights,
          investment_amount, transaction_cost_rate, shares>>

NotCalled == [raised |-> "not called", message |-> "", weights |-> <<>>]
SharesNotCalled == SharesRaised("not called", "", "")

InitCalls ==
    /\ cap = FZero
    /\ weights = NotCalled
    /\ prevCap = FZero
    /\ prevWeights = NotCalled
    /\ investment_amount = FZero
    /\ transaction_cost_rate = FZero
    /\ shares = SharesNotCalled

Init ==
    /\ equities \in EquityLists(TickersW, MarketCapsW, PricesW)
    /\ InitCalls

InitShares ==
    /\ equities \in EquityLists(TickersS, MarketCapsS, PricesS)
    /\ InitCalls

\* one call calculate_weights_with_cap(equities, c); a list is followed
\* through two successive calls
CalculateWeights(c) ==
    /\ prevWeights = NotCalled
    /\ weights' = CalculateWeightsWithCap(equities, c)
    /\ cap' = c
    /\ prevCap' = cap
    /\ prevWeights' = weights
    /\ UNCHANGED <<equities, investment_amount, transaction_cost_rate, shares>>

\* the call calculate_shares(equities, b, f, c) that replicate_index_fund
\* makes once on its equity list
CalculateShares(b, f, c) ==
    /\ shares = SharesNotCalled
    /\ investment_amount' = b
    /\ transaction_cost_rate' = f
    /\ cap' = c
    /\ IF InvalidInvestment(b)
       THEN /\ shares' = InvestmentError
            /\ weights' = NotCalled
       ELSE /\ weights' = CalculateWeightsWithCap(equities, c)
            /\ shares' = SharesFromWeights(equities, weights', b, f)
    /\ UNCHANGED <<equities, prevCap, prevWeights>>

Next == \E c \in CapsW : CalculateWeights(c)

NextShares == \E b \in Budgets, f \in FeeRates, c \in CapsS : CalculateShares(b, f, c)

\* two successive calls of calculate_weights_with_cap on one equity list
Spec == Init /\ [][Next]_vars

\* one call of calculate_shares on an equity list
SpecShares == InitShares /\ [][NextShares]_vars

\* ------------------------------------------------------------------------
\* Exact arithmetic on returned values, for stating the properties

\* the floating tolerance of the specification, 1e-9
Tolerance == FLit(1, 1000000000)

\* x + y and x * y without rounding; FLe, FLt and FGt compare without rounding
ExactSum(x, y) == XAdd(x, y)
ExactProduct(x, y) == XMul(x, y)

\* |x - y| <= 1e-9
Within(x, y) ==
    LET d == XAdd(x, FNeg(y)) IN FLe([d EXCEPT !.s = 1], Tolerance)

\* |x - y| <= 1e-9 * |y|
WithinOf(x, y) ==
    LET d == XAdd(x, FNeg(y))
    IN  FLe([d EXCEPT !.s = 1], XMul(Tolerance, [y EXCEPT !.s = 1]))

\* ------------------------------------------------------------------------
\* Properties of calculate_weights_with_cap (checked under Spec)

\* 0 < cap <= 1
ValidCap(c) == FGt(c, FZero) /\ FLe(c, FInt(1))

UniqueTickers(eqs) ==
    \A i, j \in DOMAIN eqs : eqs[i].ticker = eqs[j].ticker => i = j

\* the market-cap weights of the current equity list, before capping
InitialNow == InitialWeights(equities, TotalMarketCap(equities), Len(equities))

\* the weight the first n tickers of w hold above the cap c, summed in order
RECURSIVE SurplusOver(_, _, _)
SurplusOver(w, c, n) ==
    IF n = 0 THEN FZero
    ELSE IF FGt(w[n].value, c)
         THEN FAdd(SurplusOver(w, c, n - 1), FSub(w[n].value, c))
         ELSE SurplusOver(w, c, n - 1)

\* the excess of the current list under the current cap, the tickers at or
\* under the cap, and their total weight
ExcessNow == SurplusOver(InitialNow, cap, Len(InitialNow))
UnderNow == SelectSeq(InitialNow, LAMBDA en : FLe(en.value, cap))
UnderTotalNow == SumValues(UnderNow, Len(UnderNow))

\* the sum of the returned weights
SumNow == SumValues(weights.weights, Len(weights.weights))

\* calculate_weights_with_cap returned a map for a cap in (0, 1]
ReturnedForValidCap == weights.raised = "none" /\ ValidCap(cap)

\* C1: with non-negative market caps, a positive total and 0 < cap <= 1,
\* every returned weight w satisfies 0 <= w <= cap.
C1_CapRespected ==
    ReturnedForValidCap =>
        \A i \in DOMAIN weights.weights :
            /\ FLe(FZero, weights.weights[i].value)
            /\ FLe(weights.weights[i].value, cap)

\* C1 witness: one ticker capped directly, another raised by redistribution
\* and still below the cap.
C1_Witness ==
    /\ ReturnedForValidCap
    /\ \E i, j \in DOMAIN weights.weights :
          /\ FGt(InitialNow[i].value, cap)
          /\ weights.weights[i].value = cap
          /\ FGt(weights.weights[j].value, InitialNow[j].value)
          /\ FLt(weights.weights[j].value, cap)

\* no ticker at or under the cap is pushed above the cap by redistribution
NoReExceed ==
    (FGt(ExcessNow, FZero) /\ FGt(UnderTotalNow, FZero)) =>
        \A i \in DOMAIN UnderNow :
            FLe(FAdd(UnderNow[i].value,
                     FMul(ExcessNow, FDiv(UnderNow[i].value, UnderTotalNow))),
                cap)

\* the case C2 speaks of: valid input, distinct tickers, no second clamp
C2_Case == ReturnedForValidCap /\ UniqueTickers(equities) /\ NoReExceed

\* C2 as stated: whenever no post-redistribution weight re-exceeds the cap,
\* the returned weights sum to 1 (within the floating tolerance 1e-9), also
\* when every ticker is over the cap.
C2_SumIsOne_AsStated == C2_Case => Within(SumNow, FInt(1))

\* C2 amended: the sum is 1 (within 1e-9) when, in addition, either no ticker
\* is over the cap or the tickers at or under the cap have positive total
\* weight; when every ticker is over the cap the excess is dropped and the
\* sum is cap times the number of tickers.
C2_SumIsOne ==
    C2_Case =>
        /\ (ExcessNow = FZero \/ FGt(UnderTotalNow, FZero))
              => Within(SumNow, FInt(1))
        /\ UnderNow = <<>>
              => Within(SumNow, ExactProduct(FInt(Len(equities)), cap))

\* C2 witness: the excess of a capped ticker was redistributed to another
\* ticker without a second clamp.
C2_Witness ==
    /\ C2_Case
    /\ FGt(ExcessNow, FZero)
    /\ FGt(UnderTotalNow, FZero)
    /\ Within(SumNow, FInt(1))
    /\ \E i \in DOMAIN weights.weights :
          FGt(weights.weights[i].value, InitialNow[i].value)

\* two successive calls on the same list, the later with the smaller cap
CapDecreased ==
    /\ weights.raised = "none"
    /\ prevWeights.raised = "none"
    /\ ValidCap(cap)
    /\ ValidCap(prevCap)
    /\ FLt(cap, prevCap)

\* C4 as stated: lowering the cap from c1 to c2 never increases the weight of
\* a ticker that was uncapped under c1.
C4_Monotonic_AsStated ==
    CapDecreased =>
        \A i \in DOMAIN weights.weights :
            FLe(InitialNow[i].value, prevCap) =>
                FLe(weights.weights[i].value, prevWeights.weights[i].value)

\* C4 amended: lowering the cap from c1 to c2 never takes the weight of a
\* ticker uncapped under c1 below min(c2, its weight under c1).
C4_Monotonic ==
    CapDecreased =>
        \A i \in DOMAIN weights.weights :
            FLe(InitialNow[i].value, prevCap) =>
                FLe(FMin(cap, prevWeights.weights[i].value),
                    weights.weights[i].value)

\* C4 witness: a ticker uncapped under the larger cap whose weight is raised
\* by the redistribution that the smaller cap triggers.
C4_Witness ==
    /\ CapDecreased
    /\ \E i \in DOMAIN weights.weights :
          /\ FLe(InitialNow[i].value, prevCap)
          /\ prevWeights.weights[i].value = InitialNow[i].value
          /\ FGt(weights.weights[i].value, prevWeights.weights[i].value)

\* C5: a call with cap <= 0 or cap > 1 fails with an error and returns no
\* weight map.
C5_InvalidCapRejected ==
    (weights.raised # "not called" /\ ~ValidCap(cap)) =>
        /\ weights.raised = "ValueError"
        /\ weights.weights = <<>>

\* C8: for an empty list or a zero total market cap the call raises and
\* returns no weight map.
C8_ZeroTotalRaises ==
    (weights.raised # "not called" /\ TotalMarketCap(equities) = 0) =>
        /\ weights.raised = "ValueError"
        /\ weights.message = "Total market cap is zero"
        /\ weights.weights = <<>>

\* C8 witness: a call on a non-empty list whose market caps are all zero,
\* after a call on it that raised as well.
C8_Witness ==
    /\ equities # <<>>
    /\ TotalMarketCap(equities) = 0
    /\ weights.raised = "ValueError"
    /\ prevWeights.raised = "ValueError"

\* ------------------------------------------------------------------------
\* Properties of calculate_shares (checked under SpecShares)

\* the price calculate_shares reads for the i-th entry of the weight map
PriceAt(i) == EquityOf(equities, weights.weights[i].key).price

\* the call got past the budget check and obtained a weight map
WeightMapObtained ==
    /\ shares.raised # "not called"
    /\ FGt(investment_amount, FZero)
    /\ weights.raised = "none"

\* every ticker of the weight map has a positive price
AllPricesValid == \A i \in DOMAIN weights.weights : PriceAt(i) > 0

\* fee_rate >= 0
ValidFeeRate == FLe(FZero, transaction_cost_rate)

\* budget > 0, fee_rate >= 0, 0 < cap <= 1, positive total, prices > 0
ValidSharesCall ==
    /\ WeightMapObtained
    /\ ValidFeeRate
    /\ ValidCap(cap)
    /\ AllPricesValid

\* what k shares of the i-th ticker cost with their fee,
\* k * price * (1 + rate), without rounding
CostWithFee(k, i) ==
    ExactProduct(ExactProduct(k, FInt(PriceAt(i))),
                 ExactSum(FInt(1), transaction_cost_rate))

\* budget * weight[t] for the i-th ticker, without rounding
EarmarkedAt(i) == ExactProduct(investment_amount, weights.weights[i].value)

\* C3: for every ticker of a valid call,
\* shares * price * (1 + fee_rate) <= budget * weight.
C3_PerTickerWithinAllocation ==
    ValidSharesCall =>
        /\ shares.raised = "none"
        /\ \A i \in DOMAIN shares.shares :
              FLe(CostWithFee(shares.shares[i].value, i), EarmarkedAt(i))

\* C6: with budget > 0 and a weight map, if a ticker of the map has
\* price <= 0 the call raises an error naming such a ticker (the first one
\* in the map's order) and returns no shares and no totals, wherever that
\* ticker stands and whatever the fee rate.
C6_InvalidPriceRaises ==
    (WeightMapObtained /\ ~AllPricesValid) =>
        /\ shares.raised = "ValueError"
        /\ shares.message = "Invalid price for"
        /\ shares.shares = <<>>
        /\ \E i \in DOMAIN weights.weights :
              /\ shares.ticker = weights.weights[i].key
              /\ PriceAt(i) <= 0
              /\ \A j \in 1..(i - 1) : PriceAt(j) > 0

\* C7: with investment_amount <= 0 the call raises and returns nothing,
\* before any weight is computed or any price is looked at.
C7_NonPositiveBudgetRaises ==
    (shares.raised # "not called" /\ FLe(investment_amount, FZero)) =>
        /\ shares.raised = "ValueError"
        /\ shares.message = "Investment amount must be positive"
        /\ shares.shares = <<>>
        /\ weights = NotCalled

\* C7 witness: a zero budget on a list that would otherwise fail the total
\* market cap check or the price check.
C7_Witness ==
    /\ shares.raised # "not called"
    /\ investment_amount = FZero
    /\ shares.raised = "ValueError"
    /\ \/ (equities # <<>> /\ TotalMarketCap(equities) = 0)
       \/ (TotalMarketCap(equities) > 0
           /\ \E i \in DOMAIN equities : equities[i].price <= 0)

\* shares * price summed over the first n tickers of the result, without
\* rounding
RECURSIVE SpentOnFirst(_)
SpentOnFirst(n) ==
    IF n = 0 THEN FZero
    ELSE ExactSum(SpentOnFirst(n - 1),
                  ExactProduct(shares.shares[n].value, FInt(PriceAt(n))))

\* C9: for valid inputs every share count k is the floor of
\* budget * weight / (price * (1 + fee_rate)), a non-negative integer: k
\* shares with their fee are within budget * weight and k + 1 shares are
\* not; the total excluding fees is the float of the sum of shares * price
\* and the total including fees is that total times (1 + fee_rate), within
\* a relative 1e-9.  A single equity with price 20, cap 0.5, budget 1000 and
\* fee rate 0.03 gives 24 shares, 480 and 494.4.
C9_FloorSharesAndTotals ==
    ValidSharesCall =>
        /\ shares.raised = "none"
        /\ Len(shares.shares) = Len(weights.weights)
        /\ \A i \in DOMAIN shares.shares :
              LET k == shares.shares[i].value IN
              /\ shares.shares[i].key = weights.weights[i].key
              /\ k.e >= 0
              /\ FLe(FZero, k)
              /\ FLe(CostWithFee(k, i), EarmarkedAt(i))
              /\ FLt(EarmarkedAt(i), CostWithFee(ExactSum(k, FInt(1)), i))
        /\ shares.total_cost_excl = ToFloat(SpentOnFirst(Len(shares.shares)))
        /\ WithinOf(shares.total_cost_incl,
                    ExactProduct(shares.total_cost_excl,
                                 ExactSum(FInt(1), transaction_cost_rate)))
        /\ (/\ Len(equities) = 1
            /\ equities[1].price = 20
            /\ cap = FLit(1, 2)
            /\ investment_amount = FInt(1000)
            /\ transaction_cost_rate = FLit(3, 100))
           => /\ shares.shares[1].value = FInt(24)
              /\ shares.total_cost_excl = FInt(480)
              /\ shares.total_cost_incl = FLit(4944, 10)

\* C10: for valid inputs with distinct tickers the total cost including fees
\* never exceeds the budget.
C10_TotalWithinBudget ==
    (ValidSharesCall /\ UniqueTickers(equities)) =>
        /\ shares.raised = "none"
        /\ FLe(shares.total_cost_incl, investment_amount)

====
